---------------------------- MODULE Spec2Model ----------------------------
(***************************************************************************)
(* Model of replay_identification: the track-graph distance transform      *)
(* (multiunit_likelihood_track_graph.py), the multiunit kernel density     *)
(* estimate of the same file, and the likelihood decorators of core.py.    *)
(*                                                                         *)
(* Three specifications share the module:                                  *)
(*   Spec      convert_linear_position_to_track_distances, with its        *)
(*             batches run concurrently as dask runs delayed tasks;        *)
(*   SpecKde   get_kde / numba_product applied to bounded inputs;          *)
(*   SpecComb  combined_likelihood applied to bounded inputs.              *)
(***************************************************************************)
EXTENDS Integers, Sequences, FiniteSets, TLC

VARIABLES
    pc,               \* position of the distance-solving call
    track,            \* which track layout the caller passed (graph + nodes_df)
    linear_position,  \* the positions argument, a sequence of integers
    batch_size,       \* batch_size handed to batch()
    setup,            \* what _setup_distance returned
    graphs,           \* heap of graph objects: handle 0 is the caller's track_graph
    task,             \* one record per delayed batch_distance task
    result,           \* what the call returned (None until it returns)
    error,            \* the exception the call raised ("none" until it raises)
    kde_in,           \* arguments of get_kde
    kde_ind,          \* loop index of get_kde
    kde_out,          \* the kde array being filled, or the exception raised
    cl_in,            \* the array the wrapped log likelihood function returns
    cl_out            \* what combined_likelihood's decorated function returned

vars == <<pc, track, linear_position, batch_size, setup, graphs, task, result,
          error, kde_in, kde_ind, kde_out, cl_in, cl_out>>

dist_vars == <<pc, track, linear_position, batch_size, setup, graphs, task,
               result, error>>
kde_vars == <<kde_in, kde_ind, kde_out>>
cl_vars == <<cl_in, cl_out>>

None == [none |-> TRUE]

-----------------------------------------------------------------------------
(* Bounds of the model.                                                    *)

MaxPositions == 3
MaxBatchSize == 3

\* batch_size=10_000 in convert_linear_position_to_track_distances
DefaultBatchSize == 10000

\* the transient anchor node 'a' of get_distance2 (node ids are 1, 2, ...)
AnchorNode == 0

Positions == {-1, 0, 4, 10, 11}

-----------------------------------------------------------------------------
(* Small arithmetic helpers.                                               *)

Abs(x) == IF x < 0 THEN -x ELSE x

Min(S) == CHOOSE x \in S : \A y \in S : x <= y

Range(s) == {s[i] : i \in 1..Len(s)}

\* Python / numpy indexing of a sequence by i in -N .. N-1 (negative wraps).
PyIndex(s, i) == s[(i % Len(s)) + 1]

-----------------------------------------------------------------------------
(* Track layouts: a weighted undirected graph and its node table, sorted   *)
(* by (linear_position, edge_id).  "line" is one edge segment with nodes   *)
(* at 0, 5, 10; "two_segment" has segment 0 at 0..3 and segment 1 at 8..10 *)
(* joined at a junction; "disconnected" is the same layout with the        *)
(* junction missing and both bin centers on segment 0.                     *)

Node(id, e, be, lp) ==
    [node_ids |-> id, edge_id |-> e, is_bin_edge |-> be, linear_position |-> lp]

Tracks == {"line", "two_segment", "disconnected"}

NodesDf(t) ==
    IF t = "line"
    THEN << Node(3, 0, FALSE, 0), Node(1, 0, TRUE, 5), Node(2, 0, FALSE, 10) >>
    ELSE IF t = "two_segment"
    THEN << Node(4, 0, FALSE, 0), Node(2, 0, TRUE, 3),
            Node(1, 1, TRUE, 8), Node(3, 1, FALSE, 10) >>
    ELSE << Node(4, 0, FALSE, 0), Node(2, 0, FALSE, 3),
            Node(1, 1, TRUE, 8), Node(3, 1, TRUE, 10) >>

TrackGraph(t) ==
    IF t = "line"
    THEN [nodes |-> {1, 2, 3},
          distance |-> [e \in {{3, 1}, {1, 2}} |-> 5]]
    ELSE IF t = "two_segment"
    THEN [nodes |-> {1, 2, 3, 4},
          distance |-> [e \in {{4, 2}, {2, 1}, {1, 3}} |->
                           IF e = {2, 1} THEN 0 ELSE IF e = {4, 2} THEN 3 ELSE 2]]
    ELSE [nodes |-> {1, 2, 3, 4},
          distance |-> [e \in {{4, 2}, {1, 3}} |->
                           IF e = {4, 2} THEN 3 ELSE 2]]

-----------------------------------------------------------------------------
(* networkx operations on a graph value.                                   *)

\* nx.add_path(G, [u, v], distance=w): both nodes and the edge, attribute set
AddPath(g, u, v, w) ==
    [nodes |-> g.nodes \cup {u, v},
     distance |-> [e \in DOMAIN g.distance \cup {{u, v}} |->
                      IF e = {u, v} THEN w ELSE g.distance[e]]]

\* MUTANT of RemoveNode: the anchor is left in the graph
RemoveNodeSkipped(g, n) == g

\* G.remove_node(n): the node and every edge at it
RemoveNode(g, n) ==
    [nodes |-> g.nodes \ {n},
     distance |-> [e \in {e \in DOMAIN g.distance : n \notin e} |-> g.distance[e]]]

\* one round of edge relaxation over the nodes reached so far
Relax(g, d) ==
    LET reach == DOMAIN d
        cand == [n \in g.nodes |->
                    {d[m] + g.distance[{m, n}] :
                        m \in {m \in reach : {m, n} \in DOMAIN g.distance}}
                    \cup (IF n \in reach THEN {d[n]} ELSE {})]
    IN [n \in {n \in g.nodes : cand[n] # {}} |-> Min(cand[n])]

RECURSIVE RelaxN(_, _, _)
RelaxN(g, d, k) == IF k = 0 THEN d ELSE RelaxN(g, Relax(g, d), k - 1)

\* nx.single_source_dijkstra_path_length(G, source, weight="distance"):
\* a dict over the nodes reachable from source
Dijkstra(g, source) ==
    RelaxN(g, [n \in {source} |-> 0], Cardinality(g.nodes))

-----------------------------------------------------------------------------
(* _setup_distance.                                                        *)

LinearPositionValues(nodes_df) ==
    [i \in 1..Len(nodes_df) |-> nodes_df[i].linear_position]

RECURSIVE BisectLeft(_, _, _, _)
BisectLeft(values, x, lo, hi) ==
    IF lo >= hi THEN lo
    ELSE LET mid == (lo + hi) \div 2
         IN IF PyIndex(values, mid) < x
            THEN BisectLeft(values, x, mid + 1, hi)
            ELSE BisectLeft(values, x, lo, mid)

\* np.searchsorted(values, x) (side='left'): a 0-based insertion point in 0..N
SearchSorted(values, x) == BisectLeft(values, x, 0, Len(values))

\* a positional indexer nodes_df.iloc refuses
OutOfBounds(nodes_df, i) == i < -Len(nodes_df) \/ i >= Len(nodes_df)

\* MUTANT of ArgMinAbs: the last of the table's nodes is taken
ArgMinAbsLast(values, x) == Len(values) - 1

\* np.argmin(np.abs(x - values)): the first 0-based index of a minimum
ArgMinAbs(values, x) ==
    Min({i \in 0..Len(values) - 1 :
            \A j \in 0..Len(values) - 1 :
                Abs(x - PyIndex(values, i)) <= Abs(x - PyIndex(values, j))})

\* is_same_edge, lines 52-53
IsSameEdge(nodes_df, bin_ind) ==
    PyIndex(nodes_df, bin_ind - 1).edge_id = PyIndex(nodes_df, bin_ind).edge_id

\* left_node_ind after the fallback assignment of lines 55-60
LeftNodeInd(nodes_df, x, bin_ind) ==
    IF IsSameEdge(nodes_df, bin_ind) THEN bin_ind - 1
    ELSE ArgMinAbs(LinearPositionValues(nodes_df), x)

\* right_node_ind after the fallback assignment of lines 56-60
RightNodeInd(nodes_df, x, bin_ind) ==
    IF IsSameEdge(nodes_df, bin_ind) THEN bin_ind
    ELSE ArgMinAbs(LinearPositionValues(nodes_df), x)

\* left_dist, lines 68-69
LeftDist(nodes_df, left_node_ind, right_node_ind, x) ==
    Abs(PyIndex(nodes_df, left_node_ind).linear_position - x)

\* right_dist, lines 70-71: indexed by left_node_ind, as the source has it
RightDist(nodes_df, left_node_ind, right_node_ind, x) ==
    Abs(PyIndex(nodes_df, left_node_ind).linear_position - x)

\* place_bin_center_to_node_id, lines 62-64
PlaceBinCenterToNodeId(nodes_df) ==
    LET keep == SelectSeq(nodes_df, LAMBDA r : ~r.is_bin_edge)
    IN [i \in 1..Len(keep) |-> keep[i].node_ids]

SetupDistance(positions, nodes_df) ==
    LET n == Len(positions)
        values == LinearPositionValues(nodes_df)
        bin_ind == [i \in 1..n |-> SearchSorted(values, positions[i])]
    IN IF \E i \in 1..n : \/ OutOfBounds(nodes_df, bin_ind[i] - 1)
                          \/ OutOfBounds(nodes_df, bin_ind[i])
       THEN [ok |-> FALSE, error |-> "IndexError"]
       ELSE LET li == [i \in 1..n |-> LeftNodeInd(nodes_df, positions[i], bin_ind[i])]
                ri == [i \in 1..n |-> RightNodeInd(nodes_df, positions[i], bin_ind[i])]
            IN [ok |-> TRUE,
                left_node_id |-> [i \in 1..n |-> PyIndex(nodes_df, li[i]).node_ids],
                right_node_id |-> [i \in 1..n |-> PyIndex(nodes_df, ri[i]).node_ids],
                left_dist |-> [i \in 1..n |->
                                  LeftDist(nodes_df, li[i], ri[i], positions[i])],
                right_dist |-> [i \in 1..n |->
                                   RightDist(nodes_df, li[i], ri[i], positions[i])],
                place_bin_center_to_node_id |-> PlaceBinCenterToNodeId(nodes_df)]

-----------------------------------------------------------------------------
(* batch: the index ranges, in the order the generator yields them.        *)

RECURSIVE BatchFrom(_, _, _)
BatchFrom(ind, n_samples, size) ==
    IF ind >= n_samples THEN << >>
    ELSE LET stop == IF ind + size < n_samples THEN ind + size ELSE n_samples
         IN << [k \in 1..(stop - ind) |-> ind + k - 1] >>
            \o BatchFrom(ind + size, n_samples, size)

\* list(batch(n_samples, batch_size)): sequences of 0-based indices
Batch(n_samples, size) == BatchFrom(0, n_samples, size)

-----------------------------------------------------------------------------
(* get_distance2, split where another thread can observe the graph.        *)

\* lines 79-80: the anchor and its two edges
AddAnchor(g, left_node_id, right_node_id, left_dist, right_dist) ==
    AddPath(AddPath(g, left_node_id, AnchorNode, left_dist),
            AnchorNode, right_node_id, right_dist)

\* MUTANT of LookupDistances: a missing id reads as a very large distance
LookupDistancesDefault(dist, ids) ==
    [ok |-> TRUE,
     r |-> [i \in 1..Len(ids) |->
               IF ids[i] \in DOMAIN dist THEN dist[ids[i]] ELSE 1000000]]

\* line 84: np.array([dist[id] for id in place_bin_center_to_node_id])
LookupDistances(dist, ids) ==
    IF \E i \in 1..Len(ids) : ids[i] \notin DOMAIN dist
    THEN [ok |-> FALSE, error |-> "KeyError"]
    ELSE [ok |-> TRUE, r |-> [i \in 1..Len(ids) |-> dist[ids[i]]]]

\* MUTANT of CopyGraphHandle: the task works on the caller's graph object
CopyGraphShared(b) == 0

\* line 92: track_graph.copy() is a new graph object, owned by task b
CopyGraphHandle(b) == b

-----------------------------------------------------------------------------
(* convert_linear_position_to_track_distances as a state machine.          *)

SeqsUpTo(S, n) == UNION {[1..k -> S] : k \in 1..n}

BatchSizes == (1..MaxBatchSize) \cup {DefaultBatchSize}

IdleKde == /\ kde_in = None /\ kde_ind = 0 /\ kde_out = None
IdleComb == /\ cl_in = None /\ cl_out = None
IdleDist ==
    /\ pc = "idle" /\ track = "line" /\ linear_position = << >>
    /\ batch_size = DefaultBatchSize /\ setup = None
    /\ graphs = << >> /\ task = << >> /\ result = None /\ error = "none"

Init ==
    /\ pc = "start"
    /\ track \in Tracks
    /\ linear_position \in SeqsUpTo(Positions, MaxPositions)
    /\ batch_size \in BatchSizes
    /\ setup = None
    /\ graphs = [h \in {0} |-> TrackGraph(track)]
    /\ task = << >>
    /\ result = None
    /\ error = "none"
    /\ IdleKde
    /\ IdleComb

\* lines 118-128: _setup_distance, then one delayed batch_distance per batch
Setup ==
    /\ pc = "start"
    /\ LET s == SetupDistance(linear_position, NodesDf(track))
           batches == Batch(Len(linear_position), batch_size)
       IN IF s.ok
          THEN /\ setup' = s
               /\ task' = [b \in 1..Len(batches) |->
                              [state |-> "delayed", indices |-> batches[b],
                               k |-> 1, handle |-> 0, rows |-> << >>,
                               error |-> "none"]]
               /\ pc' = "computing"
               /\ error' = error
          ELSE /\ pc' = "failed"
               /\ error' = s.error
               /\ UNCHANGED <<setup, task>>
    /\ UNCHANGED <<track, linear_position, batch_size, graphs, result,
                   kde_vars, cl_vars>>

Running == pc \in {"computing", "failed"}

\* line 92, in the thread that runs task b
BatchCopy(b) ==
    /\ Running
    /\ task[b].state = "delayed"
    /\ LET h == CopyGraphHandle(b)
       IN /\ graphs' = [x \in DOMAIN graphs \cup {h} |->
                            IF x = h THEN graphs[0] ELSE graphs[x]]
          /\ task' = [task EXCEPT ![b].state = "running", ![b].handle = h]
    /\ UNCHANGED <<pc, track, linear_position, batch_size, setup, result, error,
                   kde_vars, cl_vars>>

\* lines 79-80 for the task's next position
BatchAnchor(b) ==
    /\ Running
    /\ task[b].state = "running"
    /\ LET t == task[b]
           i == t.indices[t.k] + 1
       IN graphs' = [graphs EXCEPT ![t.handle] =
                        AddAnchor(@, setup.left_node_id[i], setup.right_node_id[i],
                                  setup.left_dist[i], setup.right_dist[i])]
    /\ task' = [task EXCEPT ![b].state = "anchored"]
    /\ UNCHANGED <<pc, track, linear_position, batch_size, setup, result, error,
                   kde_vars, cl_vars>>

\* lines 81-86 for that position, and np.stack after the last one
BatchSolve(b) ==
    /\ Running
    /\ task[b].state = "anchored"
    /\ LET t == task[b]
           dist == Dijkstra(graphs[t.handle], AnchorNode)
           got == LookupDistances(dist, setup.place_bin_center_to_node_id)
       IN /\ graphs' = [graphs EXCEPT ![t.handle] = RemoveNode(@, AnchorNode)]
          /\ IF got.ok
             THEN task' = [task EXCEPT
                              ![b].rows = Append(@, got.r),
                              ![b].k = @ + 1,
                              ![b].state = IF t.k = Len(t.indices)
                                           THEN "done" ELSE "running"]
             ELSE task' = [task EXCEPT ![b].state = "failed",
                                       ![b].error = got.error]
    /\ UNCHANGED <<pc, track, linear_position, batch_size, setup, result, error,
                   kde_vars, cl_vars>>

RECURSIVE ConcatRows(_, _)
ConcatRows(tasks, b) ==
    IF b > Len(tasks) THEN << >> ELSE tasks[b].rows \o ConcatRows(tasks, b + 1)

\* line 130: every block computed, np.concatenate in submission order
Concatenate ==
    /\ pc = "computing"
    /\ \A b \in 1..Len(task) : task[b].state = "done"
    /\ result' = ConcatRows(task, 1)
    /\ pc' = "done"
    /\ UNCHANGED <<track, linear_position, batch_size, setup, graphs, task, error,
                   kde_vars, cl_vars>>

\* line 130: dask.compute re-raises the exception of a task that failed
Raise ==
    /\ pc = "computing"
    /\ \E b \in 1..Len(task) :
          /\ task[b].state = "failed"
          /\ error' = task[b].error
    /\ pc' = "failed"
    /\ UNCHANGED <<track, linear_position, batch_size, setup, graphs, task, result,
                   kde_vars, cl_vars>>

Next ==
    \/ Setup
    \/ \E b \in 1..Len(task) : BatchCopy(b)
    \/ \E b \in 1..Len(task) : BatchAnchor(b)
    \/ \E b \in 1..Len(task) : BatchSolve(b)
    \/ Concatenate
    \/ Raise

Spec == Init /\ [][Next]_vars

-----------------------------------------------------------------------------
(* Reference notions the properties are stated with.                       *)

NodeCount == Len(NodesDf(track))

\* the table row of a node id
RowOf(id) == CHOOSE r \in Range(NodesDf(track)) : r.node_ids = id

\* the insertion point of x: how many node positions lie strictly below x
InsertionPoint(x) ==
    Cardinality({j \in 1..NodeCount : NodesDf(track)[j].linear_position < x})

\* the candidate brackets: the rows before and after the insertion point
\* (the row "before" insertion point 0 is the one index -1 reads: the last)
CandidateLeft(x) ==
    LET p == InsertionPoint(x)
    IN NodesDf(track)[IF p = 0 THEN NodeCount ELSE p]

CandidateRight(x) == NodesDf(track)[InsertionPoint(x) + 1]

IsNearestNode(id, x) ==
    LET d == Abs(RowOf(id).linear_position - x)
    IN \A r \in Range(NodesDf(track)) : d <= Abs(r.linear_position - x)

RECURSIVE ReachFrom(_, _)
ReachFrom(g, S) ==
    LET T == S \cup {n \in g.nodes : \E m \in S : {m, n} \in DOMAIN g.distance}
    IN IF T = S THEN S ELSE ReachFrom(g, T)

BinCenterIds == {r.node_ids : r \in {r \in Range(NodesDf(track)) : ~r.is_bin_edge}}

\* some bin center cannot be reached from the anchor of position i (1-based)
HasUnreachableCenter(i) ==
    \E c \in BinCenterIds :
        c \notin ReachFrom(TrackGraph(track),
                           {setup.left_node_id[i], setup.right_node_id[i]})

\* position i solved alone on a fresh copy of the caller's graph, which is
\* what a batch of size 1 does
SolveAlone(i) ==
    LookupDistances(
        Dijkstra(AddAnchor(TrackGraph(track),
                           setup.left_node_id[i], setup.right_node_id[i],
                           setup.left_dist[i], setup.right_dist[i]), AnchorNode),
        setup.place_bin_center_to_node_id)

RECURSIVE Flatten(_, _)
Flatten(ts, b) ==
    IF b > Len(ts) THEN << >> ELSE ts[b].indices \o Flatten(ts, b + 1)

SetupDone == pc \in {"computing", "done"} \/ (pc = "failed" /\ setup # None)

-----------------------------------------------------------------------------
(* C1: distance solving never mutates the caller's track graph: in every   *)
(* state of the call, also after it returned or failed, the caller's graph *)
(* has the nodes, edges and weights it had before; every task works on a   *)
(* graph object of its own; the anchor node exists only in such a copy     *)
(* and only between its insertion and the end of that position's solve,    *)
(* after which the copy is again equal to the caller's graph.              *)
C1_SharedGraphNeverMutated ==
    /\ graphs[0] = TrackGraph(track)
    /\ \A b \in 1..Len(task) :
          task[b].state # "delayed" =>
              /\ task[b].handle # 0
              /\ \A c \in 1..Len(task) :
                    (c # b /\ task[c].state # "delayed")
                        => task[c].handle # task[b].handle
              /\ IF task[b].state = "anchored"
                 THEN /\ AnchorNode \in graphs[task[b].handle].nodes
                      /\ RemoveNode(graphs[task[b].handle], AnchorNode)
                             = TrackGraph(track)
                 ELSE graphs[task[b].handle] = TrackGraph(track)

\* C1 witness: one task holds the anchor in its copy while another task has
\* finished a block of at least one row
C1_Witness ==
    \E b, c \in 1..Len(task) :
        /\ b # c
        /\ task[b].state = "anchored"
        /\ task[c].state = "done"
        /\ AnchorNode \in graphs[task[b].handle].nodes

-----------------------------------------------------------------------------
(* C2: batch-size invariance: whatever the batch size, the call returns    *)
(* exactly the rows each position gives when solved alone on a fresh copy  *)
(* (batch size 1), row i for position i, and it fails exactly when         *)
(* _setup_distance fails or some position fails alone; the batches cover   *)
(* the indices 0 .. n-1 once each, in ascending order.                     *)
C2_BatchSizeInvariance ==
    /\ pc = "done" =>
          /\ Len(result) = Len(linear_position)
          /\ \A i \in 1..Len(linear_position) :
                SolveAlone(i).ok /\ result[i] = SolveAlone(i).r
    /\ (pc = "failed" /\ setup # None) =>
          \E i \in 1..Len(linear_position) : ~SolveAlone(i).ok
    /\ SetupDone =>
          Flatten(task, 1) = [i \in 1..Len(linear_position) |-> i - 1]

\* C2 witness: three positions in two batches, one of them of two positions,
\* returned as three rows
C2_Witness ==
    /\ pc = "done"
    /\ Len(task) = 2
    /\ Len(task[1].indices) = 2
    /\ Len(result) = 3
    /\ result[1] # result[2]

-----------------------------------------------------------------------------
-----------------------------------------------------------------------------
(* C10: once _setup_distance has returned, every position whose candidate  *)
(* brackets lie on different edge segments has both brackets equal to one  *)
(* node that is nearest to it in linear position, and every position whose *)
(* candidate brackets share an edge segment keeps exactly those brackets.  *)
C10_FallbackToNearestNode ==
    SetupDone =>
        \A i \in 1..Len(linear_position) :
            LET x == linear_position[i]
                l == CandidateLeft(x)
                r == CandidateRight(x)
            IN IF l.edge_id # r.edge_id
               THEN /\ setup.left_node_id[i] = setup.right_node_id[i]
                    /\ IsNearestNode(setup.left_node_id[i], x)
               ELSE /\ setup.left_node_id[i] = l.node_ids
                    /\ setup.right_node_id[i] = r.node_ids

\* C10 witness: one call holds a position that straddles the two segments
\* (4, between the nodes at 3 and 8) and one whose brackets share a segment
C10_Witness ==
    /\ SetupDone
    /\ track = "two_segment"
    /\ \E i, j \in 1..Len(linear_position) :
          /\ linear_position[i] = 4
          /\ setup.left_node_id[i] = 2 /\ setup.right_node_id[i] = 2
          /\ linear_position[j] = 10
          /\ setup.left_node_id[j] = 1 /\ setup.right_node_id[j] = 3

-----------------------------------------------------------------------------
(* C3: a position exactly at a bin center's linear position gets distance  *)
(* 0 to that bin center and, to every other bin center, the shortest-path  *)
(* distance between the two nodes in the caller's graph.                   *)
C3_ExactlyAtBinCenter ==
    pc = "done" =>
        \A i \in 1..Len(linear_position) :
            LET ids == setup.place_bin_center_to_node_id IN
            \A j \in 1..Len(ids) :
                RowOf(ids[j]).linear_position = linear_position[i] =>
                    /\ result[i][j] = 0
                    /\ \A c \in 1..Len(ids) :
                          result[i][c] = Dijkstra(TrackGraph(track), ids[j])[ids[c]]

-----------------------------------------------------------------------------
(* C8: for a position whose brackets share an edge segment, the anchor is  *)
(* joined to the left bracket with weight |linear_position(left) - x| and  *)
(* to the right bracket with weight |linear_position(right) - x|.  Stated  *)
(* for the positions inside the range of the node positions, whose         *)
(* brackets are the two nodes around them.                                 *)
C8_SameEdgeResiduals ==
    \A b \in 1..Len(task) :
        task[b].state = "anchored" =>
            LET i == task[b].indices[task[b].k] + 1
                x == linear_position[i]
                l == CandidateLeft(x)
                r == CandidateRight(x)
                g == graphs[task[b].handle]
            IN (InsertionPoint(x) \in 1..NodeCount - 1 /\ l.edge_id = r.edge_id) =>
                  /\ g.distance[{AnchorNode, l.node_ids}]
                        = Abs(l.linear_position - x)
                  /\ g.distance[{AnchorNode, r.node_ids}]
                        = Abs(r.linear_position - x)

-----------------------------------------------------------------------------
(* C9: a position below the smallest or above the largest node position    *)
(* does not make the call fail, and both its brackets are the nearest      *)
(* boundary node: the first row of the table below the range, the last     *)
(* row above it.                                                           *)
C9_OutOfRangeNearestBoundary ==
    pc # "start" =>
        \A i \in 1..Len(linear_position) :
            LET x == linear_position[i]
                first == NodesDf(track)[1]
                last == NodesDf(track)[NodeCount]
            IN /\ x < first.linear_position =>
                     /\ setup # None
                     /\ setup.left_node_id[i] = first.node_ids
                     /\ setup.right_node_id[i] = first.node_ids
               /\ x > last.linear_position =>
                     /\ setup # None
                     /\ setup.left_node_id[i] = last.node_ids
                     /\ setup.right_node_id[i] = last.node_ids

-----------------------------------------------------------------------------
(* Real numbers of the kernel density estimate, kept exact.  A monomial    *)
(*     [coef, enum, eden, den, pi]                                         *)
(* stands for coef * exp(-0.5 * enum / eden) / (den * SQRT_2PI ^ pi), with *)
(* enum / eden in lowest terms; a value is the sum of a sequence of        *)
(* monomials with non-zero coefficients, << >> being 0.                    *)

MaxTest == 2
MaxTrain == 2
MaxMarks == 2
MaxBins == 3
MaxKernelBins == 2

FeatureValues == {0, 1}
BandwidthValues == {1, 2}
KernelValues == {0, 1}

RECURSIVE Gcd(_, _)
Gcd(a, b) == IF b = 0 THEN a ELSE Gcd(b, a % b)

Mono(coef, enum, eden, den, npi) ==
    LET g == Gcd(enum, eden)
    IN [coef |-> coef, enum |-> enum \div g, eden |-> eden \div g,
        den |-> den, pi |-> npi]

One == Mono(1, 0, 1, 1, 0)

MonoTimes(a, b) ==
    Mono(a.coef * b.coef, a.enum * b.eden + b.enum * a.eden, a.eden * b.eden,
         a.den * b.den, a.pi + b.pi)

\* lines 158-160: (np.exp(-0.5 * ((eval_point[k] - sample) / bandwidth)**2)
\*                 / (bandwidth * SQRT_2PI)) / bandwidth
KernelFactor(eval_point_k, sample, bandwidth) ==
    Mono(1, (eval_point_k - sample) * (eval_point_k - sample),
         bandwidth * bandwidth, bandwidth * bandwidth, 1)

RECURSIVE ProductKernel(_, _, _, _)
ProductKernel(eval_point, sample_row, bandwidths, k) ==
    IF k = 0 THEN One
    ELSE MonoTimes(ProductKernel(eval_point, sample_row, bandwidths, k - 1),
                   KernelFactor(eval_point[k], sample_row[k], bandwidths[k]))

\* numba_product: one product kernel per training sample
NumbaProduct(eval_point, samples, bandwidths) ==
    [j \in 1..Len(samples) |->
        ProductKernel(eval_point, samples[j], bandwidths, Len(bandwidths))]

RECURSIVE DotColumn(_, _, _, _)
DotColumn(vec, rows, c, j) ==
    IF j = 0 THEN << >>
    ELSE DotColumn(vec, rows, c, j - 1)
         \o (IF rows[j][c] = 0 THEN << >>
             ELSE << [vec[j] EXCEPT !.coef = @ * rows[j][c]] >>)

\* vec @ gaussian_track_distances: one sum per column of the kernel
MatMul(vec, kernel) ==
    [c \in 1..kernel.n_bins |-> DotColumn(vec, kernel.rows, c, Len(vec))]

CountTrue(mask) == Cardinality({i \in 1..Len(mask) : mask[i]})

\* how many True entries the mask has in 1..i
Rank(mask, i) == Cardinality({j \in 1..i : mask[j]})

\* kde[ind, is_track_interior] = values, for a row of n_bins entries
MaskedAssign(row, mask, values) ==
    IF Len(mask) # Len(row)
    THEN [ok |-> FALSE, error |-> "IndexError"]
    ELSE IF Len(values) # CountTrue(mask) /\ Len(values) # 1
    THEN [ok |-> FALSE, error |-> "ValueError"]
    ELSE [ok |-> TRUE,
          row |-> [c \in 1..Len(row) |->
                      IF mask[c]
                      THEN values[IF Len(values) = 1 THEN 1 ELSE Rank(mask, c)]
                      ELSE row[c]]]

-----------------------------------------------------------------------------
(* get_kde as a state machine over its loop.                               *)

Rows(n, d, S) == [1..n -> [1..d -> S]]

InitKde ==
    /\ \E d \in 1..MaxMarks, m \in 1..MaxTest, k \in 0..MaxTrain,
          b \in 1..MaxKernelBins, t \in 1..MaxBins :
          \E test \in Rows(m, d, FeatureValues),
             train \in Rows(k, d, FeatureValues),
             mask \in [1..t -> BOOLEAN],
             bw \in [1..d -> BandwidthValues],
             kernel \in Rows(k, b, KernelValues) :
             kde_in = [test_multiunit |-> test,
                       train_multiunit |-> train,
                       is_track_interior |-> mask,
                       bandwidths |-> bw,
                       gaussian_track_distances |->
                           [n_bins |-> b, rows |-> kernel]]
    /\ kde_ind = 0
    /\ kde_out = None
    /\ IdleDist
    /\ IdleComb

\* lines 182-183: kde = np.zeros((n_test, n_bins))
KdeAlloc ==
    /\ kde_in # None
    /\ kde_out = None
    /\ kde_out' = [ok |-> TRUE, returned |-> FALSE,
                   kde |-> [i \in 1..Len(kde_in.test_multiunit) |->
                              [c \in 1..kde_in.gaussian_track_distances.n_bins |->
                                  << >>]]]
    /\ UNCHANGED <<kde_in, kde_ind, dist_vars, cl_vars>>

\* lines 184-187: one pass of the loop over the test observations
KdeRow ==
    /\ kde_out # None
    /\ kde_out.ok /\ ~kde_out.returned
    /\ kde_ind < Len(kde_in.test_multiunit)
    /\ LET ind == kde_ind + 1
           values == MatMul(NumbaProduct(kde_in.test_multiunit[ind],
                                         kde_in.train_multiunit,
                                         kde_in.bandwidths),
                            kde_in.gaussian_track_distances)
           got == MaskedAssign(kde_out.kde[ind], kde_in.is_track_interior, values)
       IN IF got.ok
          THEN /\ kde_out' = [kde_out EXCEPT !.kde[ind] = got.row]
               /\ kde_ind' = ind
          ELSE /\ kde_out' = [ok |-> FALSE, error |-> got.error]
               /\ kde_ind' = kde_ind
    /\ UNCHANGED <<kde_in, dist_vars, cl_vars>>

\* line 189: return kde
KdeReturn ==
    /\ kde_out # None
    /\ kde_out.ok /\ ~kde_out.returned
    /\ kde_ind = Len(kde_in.test_multiunit)
    /\ kde_out' = [kde_out EXCEPT !.returned = TRUE]
    /\ UNCHANGED <<kde_in, kde_ind, dist_vars, cl_vars>>

NextKde == KdeAlloc \/ KdeRow \/ KdeReturn

SpecKde == InitKde /\ [][NextKde]_vars

-----------------------------------------------------------------------------
(* Reference notions for the properties of get_kde.                        *)

KdeMaskFits ==
    /\ Len(kde_in.is_track_interior) >= kde_in.gaussian_track_distances.n_bins
    /\ CountTrue(kde_in.is_track_interior)
          = kde_in.gaussian_track_distances.n_bins

Projected(ind) ==
    MatMul(NumbaProduct(kde_in.test_multiunit[ind], kde_in.train_multiunit,
                        kde_in.bandwidths),
           kde_in.gaussian_track_distances)

NonNegative(value) ==
    \A t \in 1..Len(value) : value[t].coef >= 0 /\ value[t].den > 0

RECURSIVE SeqProduct(_, _)
SeqProduct(q, k) == IF k = 0 THEN 1 ELSE q[k] * SeqProduct(q, k - 1)

-----------------------------------------------------------------------------
(* C5: for m test observations, a kernel with b columns and a mask over    *)
(* T >= b bins with exactly b True entries, get_kde returns an m x T       *)
(* surface whose False columns are 0, whose entries are non-negative and   *)
(* whose True columns hold the b projected values of the row, in order.    *)
C5_SurfaceOverAllBins ==
    (kde_in # None /\ kde_out # None /\ KdeMaskFits) =>
        /\ kde_out.ok
        /\ kde_out.returned =>
              LET mask == kde_in.is_track_interior IN
              /\ Len(kde_out.kde) = Len(kde_in.test_multiunit)
              /\ \A i \in 1..Len(kde_out.kde) :
                    /\ Len(kde_out.kde[i]) = Len(mask)
                    /\ \A c \in 1..Len(mask) :
                          /\ NonNegative(kde_out.kde[i][c])
                          /\ ~mask[c] => kde_out.kde[i][c] = << >>
                          /\ mask[c] =>
                                kde_out.kde[i][c] = Projected(i)[Rank(mask, c)]

-----------------------------------------------------------------------------
(* C6: with one training row equal to the one test row, the density at a   *)
(* bin whose kernel weight is 1 is the product over the channels of        *)
(* 1 / (b_k * sqrt(2 pi)).  (The mask marks every bin of the kernel as     *)
(* interior, so that the matching bin is a column of the surface.)         *)
C6_DensityAtTheMean ==
    (/\ kde_in # None /\ kde_out # None
     /\ KdeMaskFits
     /\ kde_out.ok /\ kde_out.returned
     /\ Len(kde_in.test_multiunit) = 1
     /\ Len(kde_in.train_multiunit) = 1
     /\ kde_in.test_multiunit[1] = kde_in.train_multiunit[1]) =>
        \A c \in 1..kde_in.gaussian_track_distances.n_bins :
            kde_in.gaussian_track_distances.rows[1][c] = 1 =>
                kde_out.kde[1][c]
                    = << Mono(1, 0, 1,
                              SeqProduct(kde_in.bandwidths,
                                         Len(kde_in.bandwidths)),
                              Len(kde_in.bandwidths)) >>

-----------------------------------------------------------------------------
(* combined_likelihood.  An array is [dtype, shape, flat]: flat holds the  *)
(* entries in row-major order; an object array holds arrays.  The wrapped  *)
(* function returns either a regular (n_sources, n) array or, when the     *)
(* sources differ in length, an object array of its per-source arrays.     *)

MaxSources == 2
MaxLen == 3

LogLikelihoodValues == {-1, 0}

Array(shape, flat) == [dtype |-> "float", shape |-> shape, flat |-> flat]

RECURSIVE ColumnSum(_, _, _, _)
ColumnSum(flat, n, j, i) ==
    IF i = 0 THEN 0 ELSE flat[(i - 1) * n + j] + ColumnSum(flat, n, j, i - 1)

\* a + b for two 1-d arrays, with numpy's broadcasting of length 1
BroadcastAdd(a, b) ==
    LET la == a.shape[1]
        lb == b.shape[1]
    IN IF la # lb /\ la # 1 /\ lb # 1
       THEN [ok |-> FALSE, error |-> "ValueError"]
       ELSE LET n == IF la > lb THEN la ELSE lb
            IN [ok |-> TRUE,
                value |-> Array(<< n >>,
                    [j \in 1..n |-> a.flat[IF la = 1 THEN 1 ELSE j]
                                    + b.flat[IF lb = 1 THEN 1 ELSE j]])]

RECURSIVE ObjectSum(_, _)
ObjectSum(items, k) ==
    IF k = 1 THEN [ok |-> TRUE, value |-> items[1]]
    ELSE LET rest == ObjectSum(items, k - 1)
         IN IF rest.ok THEN BroadcastAdd(rest.value, items[k]) ELSE rest

\* MUTANT of NpSumAxis0: the sum runs over every axis (axis=None)
NpSumAll(a) ==
    IF a.dtype = "object"
    THEN ObjectSum(a.flat, Len(a.flat))
    ELSE [ok |-> TRUE,
          value |-> Array(<< >>,
                      << ColumnSum(a.flat, 1, 1, Len(a.flat)) >>)]

\* np.sum(a, axis=0)
NpSumAxis0(a) ==
    IF a.dtype = "object"
    THEN ObjectSum(a.flat, Len(a.flat))
    ELSE [ok |-> TRUE,
          value |-> Array(<< a.shape[2] >>,
                      [j \in 1..a.shape[2] |->
                          ColumnSum(a.flat, a.shape[2], j, a.shape[1])])]

\* a.squeeze(): the axes of length 1 dropped, the entries kept
Squeeze(a) ==
    [a EXCEPT !.shape = SelectSeq(a.shape, LAMBDA n : n # 1)]

InitComb ==
    /\ \/ \E s \in 1..MaxSources, n \in 1..MaxLen :
             \E flat \in [1..(s * n) -> LogLikelihoodValues] :
                cl_in = Array(<< s, n >>, flat)
       \/ \E s \in 2..MaxSources :
             \E items \in [1..s -> UNION {[1..l -> LogLikelihoodValues] :
                                             l \in 1..MaxLen}] :
                /\ \E i, j \in 1..s : Len(items[i]) # Len(items[j])
                /\ cl_in = [dtype |-> "object", shape |-> << s >>,
                            flat |-> [i \in 1..s |->
                                Array(<< Len(items[i]) >>, items[i])]]
    /\ cl_out = None
    /\ IdleDist
    /\ IdleKde

\* lines 33-35: np.sum(..., axis=0) returns
CombSum ==
    /\ cl_in # None /\ cl_out = None
    /\ NpSumAxis0(cl_in).ok
    /\ cl_out' = [path |-> "sum", value |-> NpSumAxis0(cl_in).value]
    /\ UNCHANGED <<cl_in, dist_vars, kde_vars>>

\* lines 36-37: np.sum raised ValueError; the function is called again and
\* its result squeezed
CombSqueeze ==
    /\ cl_in # None /\ cl_out = None
    /\ ~NpSumAxis0(cl_in).ok
    /\ NpSumAxis0(cl_in).error = "ValueError"
    /\ cl_out' = [path |-> "squeeze", value |-> Squeeze(cl_in)]
    /\ UNCHANGED <<cl_in, dist_vars, kde_vars>>

NextComb == CombSum \/ CombSqueeze

SpecComb == InitComb /\ [][NextComb]_vars

SingleSource == cl_in # None /\ cl_in.dtype = "float" /\ cl_in.shape[1] = 1

-----------------------------------------------------------------------------
(* C7 as amended: on a (1, n) array combined_likelihood returns, by the    *)
(* sum path, the n values of the raw result with shape (n,), for every     *)
(* n >= 1; this equals the raw result squeezed for every n >= 2, while for *)
(* n = 1 the squeezed raw result holds the same value with shape ().       *)
C7_SingleSourceSum ==
    (SingleSource /\ cl_out # None) =>
        LET n == cl_in.shape[2] IN
        /\ cl_out.path = "sum"
        /\ cl_out.value = Array(<< n >>, cl_in.flat)
        /\ n >= 2 => cl_out.value = Squeeze(cl_in)
        /\ n = 1 => /\ Squeeze(cl_in).shape = << >>
                    /\ Squeeze(cl_in).flat = cl_out.value.flat

\* C7 witness: a (1, 3) result with distinct entries has been combined
C7_Witness ==
    /\ SingleSource
    /\ cl_in.shape[2] = 3
    /\ cl_in.flat[1] # cl_in.flat[2]
    /\ cl_out # None
    /\ cl_out.value.shape = << 3 >>

\* C7 as stated: for every n >= 1 the output is the raw result squeezed
C7_Original ==
    (SingleSource /\ cl_out # None) =>
        /\ cl_out.value = Squeeze(cl_in)
        /\ cl_out.value.shape = << cl_in.shape[2] >>

=============================================================================
